---- MODULE Spec2Model ----
(***************************************************************************)
(* A model of src/bot.py: the UNO card detector (UNOCardDetector) and the  *)
(* interactive game object (UNOGame) with its hand, its top-of-pile card   *)
(* and the menu loop that drives them.                                     *)
(*                                                                         *)
(* Python strings are TLA+ strings (sequences of characters), a Python     *)
(* dict describing a card is a record with the same keys, and Python's     *)
(* None is the record None below.                                          *)
(***************************************************************************)
EXTENDS Integers, Sequences, FiniteSets, TLC

VARIABLES
    player_hand,   \* UNOGame.player_hand: the list of card dicts
    top_card,      \* UNOGame.top_card: a card dict or None
    current_color, \* UNOGame.current_color: set by __init__, never used again
    status,        \* where the process is: "menu", "exited", "crashed", or, for
                   \* a single call of one method, "call" / "returned"
    last,          \* the operation performed last: its name, its input, what it
                   \* returned and the message it printed
    jogaveis,      \* the list printed by the last melhores_jogadas of this step
    old_hand,      \* history: player_hand before the last operation
    produced       \* history: the card of the last successful detect/define

vars == <<player_hand, top_card, current_color, status, last, jogaveis,
          old_hand, produced>>

-----------------------------------------------------------------------------
(* Bounds of the model *)

\* longest hand the menu loop is allowed to build
MaxHand == 3
\* longest hand handed to a single call of melhores_jogadas
MaxLen == 4
\* most whitespace-separated words in a text handed to a single call of
\* parse_manual_input
MaxTokens == 3

-----------------------------------------------------------------------------
(* Python values *)

None == [type |-> "None"]

\* truth value of a dict-or-None: every card dict is non-empty
Truthy(x) == x # None

\* the return values of detect_card_type: an int, a str or None
IntVal(n) == [int |-> n]
StrVal(s) == [str |-> s]
IsInt(v) == "int" \in DOMAIN v
IsStr(v) == "str" \in DOMAIN v

\* what a call does: returns a value, or raises
Return(v) == [raised |-> "", value |-> v]
Raise(e) == [raised |-> e, value |-> None]

-----------------------------------------------------------------------------
(* Card dicts *)

NumberCard(color, value) == [type |-> "number", color |-> color, value |-> value]
ActionCard(color, action) == [type |-> "action", color |-> color, action |-> action]
WildCard(action) == [type |-> "wild", action |-> action]

\* v == card.get(key), for a v that is not None
GetEquals(card, key, v) == key \in DOMAIN card /\ card[key] = v

-----------------------------------------------------------------------------
(* str methods *)

Whitespace == {" ", "\t"}
UpperCase == "ABCDEFGHIJKLMNOPQRSTUVWXYZ"
LowerCase == "abcdefghijklmnopqrstuvwxyz"
\* the characters int() reads as decimal digits
DecimalDigits == "0123456789"
\* characters str.isdigit() accepts and int() rejects (U+00B2, superscript two)
DigitNotDecimal == {"²"}

CharAt(s, i) == SubSeq(s, i, i)
IndexIn(c, s) == CHOOSE i \in 1..Len(s) : CharAt(s, i) = c
CharsOf(s) == {CharAt(s, i) : i \in 1..Len(s)}
UpperChars == CharsOf(UpperCase)
DecimalChars == CharsOf(DecimalDigits)

LowerChar(c) == IF c \in UpperChars THEN CharAt(LowerCase, IndexIn(c, UpperCase)) ELSE c

RECURSIVE lower(_)
lower(s) == IF s = "" THEN "" ELSE LowerChar(CharAt(s, 1)) \o lower(Tail(s))

RECURSIVE lstrip(_)
lstrip(s) == IF s # "" /\ CharAt(s, 1) \in Whitespace THEN lstrip(Tail(s)) ELSE s

RECURSIVE rstrip(_)
rstrip(s) ==
    IF s # "" /\ CharAt(s, Len(s)) \in Whitespace
    THEN rstrip(SubSeq(s, 1, Len(s) - 1))
    ELSE s

strip(s) == rstrip(lstrip(s))

\* s.split(): the maximal runs of non-whitespace characters, in order
RECURSIVE SplitFrom(_, _, _)
SplitFrom(s, word, parts) ==
    LET closed == IF word = "" THEN parts ELSE Append(parts, word)
    IN  IF s = "" THEN closed
        ELSE IF CharAt(s, 1) \in Whitespace THEN SplitFrom(Tail(s), "", closed)
        ELSE SplitFrom(Tail(s), word \o CharAt(s, 1), parts)

split(s) == SplitFrom(s, "", <<>>)

IsDigitChar(c) == c \in DecimalChars \/ c \in DigitNotDecimal

isdigit(s) == s # "" /\ \A i \in 1..Len(s) : IsDigitChar(CharAt(s, i))

RECURSIVE DecimalValue(_)
DecimalValue(s) ==
    IF s = "" THEN 0
    ELSE 10 * DecimalValue(SubSeq(s, 1, Len(s) - 1))
         + (IndexIn(CharAt(s, Len(s)), DecimalDigits) - 1)

AllDecimal(s) == s # "" /\ \A i \in 1..Len(s) : CharAt(s, i) \in DecimalChars

\* int(s): an optional sign and decimal digits, surrounding whitespace ignored;
\* anything else raises ValueError
int(s) ==
    LET t == strip(s)
        signed == t # "" /\ CharAt(t, 1) \in {"+", "-"}
        digits == IF signed THEN Tail(t) ELSE t
    IN  IF AllDecimal(digits)
        THEN Return(IF signed /\ CharAt(t, 1) = "-"
                    THEN 0 - DecimalValue(digits) ELSE DecimalValue(digits))
        ELSE Raise("ValueError")

\* sub in s
Contains(sub, s) ==
    \E i \in 1..(Len(s) - Len(sub) + 1) : SubSeq(s, i, i + Len(sub) - 1) = sub

-----------------------------------------------------------------------------
(* UNOCardDetector *)

\* the keys of color_ranges, in insertion order
ColorRangeKeys == <<"red", "blue", "green", "yellow", "black">>

\* the pixel count a dominant colour has to exceed
MinPixels == 1000

\* special_cards, in insertion order
special_cards ==
    << <<"S", "skip">>, <<"R", "reverse">>, <<"+2", "draw_two">>,
       <<"W", "wild">>, <<"+4", "wild_draw_four">> >>

\* max(color_scores, key=color_scores.get): the first key, in insertion order,
\* whose score is the largest
MaxKey(color_scores) ==
    LET best == CHOOSE i \in 1..Len(ColorRangeKeys) :
                  /\ \A j \in 1..Len(ColorRangeKeys) :
                        color_scores[ColorRangeKeys[j]] <= color_scores[ColorRangeKeys[i]]
                  /\ \A j \in 1..(i - 1) :
                        color_scores[ColorRangeKeys[j]] < color_scores[ColorRangeKeys[i]]
    IN  ColorRangeKeys[best]

\* variant: a count equal to the threshold passes
ConfidentAtThreshold(score) == score >= MinPixels

Confident(score) == score > MinPixels

\* detect_color, from the pixel counts cv2.countNonZero gave for the five masks
detect_color(color_scores) ==
    LET dominant_color == MaxKey(color_scores)
    IN  IF Confident(color_scores[dominant_color]) THEN dominant_color ELSE "unknown"

RECURSIVE DigitsOf(_)
DigitsOf(s) ==
    IF s = "" THEN ""
    ELSE (IF IsDigitChar(CharAt(s, 1)) THEN CharAt(s, 1) ELSE "") \o DigitsOf(Tail(s))

\* detect_card_type, from the text pytesseract.image_to_string gave
detect_card_type(ocr) ==
    LET text == strip(ocr)
        hits == {i \in 1..Len(special_cards) : Contains(special_cards[i][1], text)}
        first == CHOOSE i \in hits : \A j \in hits : i <= j
        clean_text == DigitsOf(text)
        number == int(clean_text)
    IN  IF hits # {} THEN Return(StrVal(special_cards[first][2]))
        ELSE IF clean_text = "" THEN Return(None)
        ELSE IF number.raised # "" THEN number
        ELSE IF 0 <= number.value /\ number.value <= 9 THEN Return(IntVal(number.value))
        ELSE Return(None)

\* variant: a black card needs a wild symbol
ReconcileStrict(color, value) ==
    IF color # "black" /\ color # "unknown"
    THEN IF IsInt(value) THEN NumberCard(color, value.int)
         ELSE IF IsStr(value) /\ value.str \in {"skip", "reverse", "draw_two"}
              THEN ActionCard(color, value.str)
         ELSE None
    ELSE IF color = "black" /\ IsStr(value) /\ value.str \in {"wild", "wild_draw_four"}
    THEN WildCard(value.str)
    ELSE None

\* the branches of detect_card on the two classifiers' results
Reconcile(color, value) ==
    IF color # "black" /\ color # "unknown"
    THEN IF IsInt(value) THEN NumberCard(color, value.int)
         ELSE IF IsStr(value) /\ value.str \in {"skip", "reverse", "draw_two"}
              THEN ActionCard(color, value.str)
         ELSE None
    ELSE IF color = "black"
    THEN IF IsStr(value) /\ value.str \in {"wild", "wild_draw_four"}
         THEN WildCard(value.str)
         ELSE WildCard("wild")
    ELSE None

\* detect_card, from what the two primitives gave on the cropped image
detect_card(color_scores, ocr) ==
    LET color == detect_color(color_scores)
        value == detect_card_type(ocr)
    IN  IF value.raised # "" THEN value ELSE Return(Reconcile(color, value.value))

-----------------------------------------------------------------------------
(* UNOGame: the methods, as functions of the fields they read *)

\* variant: without the same-value / same-action branch
PlayableSameColorOnly(carta, top) ==
    IF carta.type = "wild" THEN TRUE
    ELSE GetEquals(top, "color", carta.color)

\* the test of one hand card against the top card in melhores_jogadas
Playable(carta, top) ==
    IF carta.type = "wild" THEN TRUE
    ELSE IF GetEquals(top, "color", carta.color) THEN TRUE
    ELSE IF carta.type = top.type
    THEN IF carta.type = "number" /\ GetEquals(top, "value", carta.value) THEN TRUE
         ELSE IF carta.type = "action" /\ GetEquals(top, "action", carta.action) THEN TRUE
         ELSE FALSE
    ELSE FALSE

\* the loop that fills jogaveis
RECURSIVE Collect(_, _)
Collect(hand, top) ==
    IF hand = <<>> THEN <<>>
    ELSE (IF Playable(Head(hand), top) THEN <<Head(hand)>> ELSE <<>>)
         \o Collect(Tail(hand), top)

\* variant: the ranks the other way round
SortKeyDescending(c) == IF c.type = "number" THEN 2 ELSE (IF c.type = "action" THEN 1 ELSE 0)

\* the sort key
SortKey(c) == IF c.type = "number" THEN 0 ELSE (IF c.type = "action" THEN 1 ELSE 2)

\* variant: an unstable sort, equal keys change places
GoesAfterStrict(placed, c) == SortKey(placed) < SortKey(c)

\* list.sort is stable: an element goes after the elements whose key is not
\* greater than its own
GoesAfter(placed, c) == SortKey(placed) <= SortKey(c)

InsertSorted(sorted, c) ==
    LET n == Cardinality({i \in 1..Len(sorted) : GoesAfter(sorted[i], c)})
    IN  SubSeq(sorted, 1, n) \o <<c>> \o SubSeq(sorted, n + 1, Len(sorted))

RECURSIVE SortFrom(_, _)
SortFrom(sorted, rest) ==
    IF rest = <<>> THEN sorted ELSE SortFrom(InsertSorted(sorted, Head(rest)), Tail(rest))

sort(list) == SortFrom(<<>>, list)

\* melhores_jogadas: whether it printed suggestions, and the list it printed
melhores_jogadas(hand, top) ==
    IF ~Truthy(top) THEN [printed |-> FALSE, jogaveis |-> <<>>]
    ELSE [printed |-> TRUE, jogaveis |-> sort(Collect(hand, top))]

\* variant: insert at the front
AddToHandFront(hand, card, adicionar_na_mao) ==
    IF adicionar_na_mao THEN <<card>> \o hand ELSE hand

\* variant: the flag is ignored
AddToHandAlways(hand, card, adicionar_na_mao) == Append(hand, card)

\* the append both branches of parse_manual_input end with
AddToHand(hand, card, adicionar_na_mao) ==
    IF adicionar_na_mao THEN Append(hand, card) ELSE hand

InDigitRange(n) == 0 <= n /\ n <= 9

\* value.isdigit() and 0 <= int(value) <= 9, which raises what int raises
IsNumberText(value) ==
    LET ranged(n) == IF n.raised # "" THEN n ELSE Return(InDigitRange(n.value))
    IN  IF ~isdigit(value) THEN Return(FALSE) ELSE ranged(int(value))

\* parse_manual_input: what it returns or raises, and the hand it leaves
parse_manual_input(hand, text, adicionar_na_mao) ==
    LET invalid == [ret |-> Return(None), hand |-> hand]
        accept(card) == [ret |-> Return(card),
                         hand |-> AddToHand(hand, card, adicionar_na_mao)]
        colored(color, value, number) ==
            IF color \in {"red", "blue", "green", "yellow"}
            THEN IF number.raised # "" THEN [ret |-> number, hand |-> hand]
                 ELSE IF number.value THEN accept(NumberCard(color, int(value).value))
                 ELSE IF value \in {"skip", "reverse", "draw_two"}
                 THEN accept(ActionCard(color, value))
                 ELSE invalid
            ELSE invalid
        parsed(parts) ==
            IF Len(parts) = 2 THEN colored(parts[1], parts[2], IsNumberText(parts[2]))
            ELSE IF Len(parts) = 1
            THEN IF parts[1] \in {"wild", "wild_draw_four"}
                 THEN accept(WildCard(parts[1]))
                 ELSE invalid
            ELSE invalid
    IN  parsed(split(lower(text)))

\* variant: the assignment without its guard
SetTopUnguarded(top, card) == card

\* self.top_card = card, under "if card:"
SetTop(top, card) == IF Truthy(card) THEN card ELSE top

\* variant: pop() without its index
popLast(list, i) == [item |-> list[Len(list)], rest |-> SubSeq(list, 1, Len(list) - 1)]

\* list.pop(i): the item at zero-based i, and the list without it
pop(list, i) ==
    [item |-> list[i + 1], rest |-> SubSeq(list, 1, i) \o SubSeq(list, i + 2, Len(list))]

InRange(choice, hand) == 1 <= choice /\ choice <= Len(hand)

\* remove_card_from_hand, from the line typed at its prompt: the message it
\* prints, the card it removed and the hand it leaves
remove_card_from_hand(hand, typed) ==
    LET keep(msg) == [msg |-> msg, removed |-> None, hand |-> hand]
        chosen(choice) ==
            IF choice.raised # "" THEN keep("not_a_number")
            ELSE IF choice.value = 0 THEN keep("cancelled")
            ELSE IF InRange(choice.value, hand)
            THEN [msg |-> "removed", removed |-> pop(hand, choice.value - 1).item,
                  hand |-> pop(hand, choice.value - 1).rest]
            ELSE keep("invalid_number")
    IN  IF hand = <<>> THEN keep("hand_empty") ELSE chosen(int(typed))

\* capture_card: None without a picture, detect_card's answer with one; a
\* failed frame read leaves the loop with card_img unassigned
capture_card(how, color_scores, ocr) ==
    IF how \in {"no_camera", "escape", "quit_key"} THEN Return(None)
    ELSE IF how = "read_failed" THEN Raise("UnboundLocalError")
    ELSE detect_card(color_scores, ocr)

-----------------------------------------------------------------------------
(* What the user and the camera can supply at the menu *)

Scores(r, b, g, y, k) == [red |-> r, blue |-> b, green |-> g, yellow |-> y, black |-> k]

NoFrame == [color_scores |-> Scores(0, 0, 0, 0, 0), ocr |-> ""]

\* pixel counts of the frames captured: a red card, a black card, and a red
\* card whose count sits on the threshold
GameScores == {Scores(5000, 0, 0, 0, 200), Scores(0, 0, 0, 0, 3000), Scores(1000, 0, 0, 0, 0)}

\* texts read off those frames
GameOcr == {"5", "S", ""}

\* how a capture_card call ends, and with which frame
Captures ==
    {[how |-> h, frame |-> NoFrame] : h \in {"no_camera", "escape", "quit_key", "read_failed"}}
    \cup {[how |-> "captured", frame |-> [color_scores |-> c, ocr |-> t]] :
            c \in GameScores, t \in GameOcr}

\* lines typed at the card prompts of options 2, 4 and 5
GameTexts ==
    {"red 5", "Blue SKIP", "wild", "  ", " red  5 ", "purple 5", "red 10", "red 5 x", "red ²"}

\* lines typed at the prompt of option 6
DigitText(n) == CharAt(DecimalDigits, n + 1)
RemoveTexts == {DigitText(n) : n \in 0..(MaxHand + 1)} \cup {"-1", "x"}

\* lines typed at the menu prompt that are none of '1'..'7'
OtherChoices == {"8", ""}

-----------------------------------------------------------------------------
(* UNOGame.__init__ and UNOGame.run *)

NoOutput == [printed |-> FALSE, jogaveis |-> <<>>]

Init ==
    /\ player_hand = <<>>
    /\ top_card = None
    /\ current_color = None
    /\ status = "menu"
    /\ last = [op |-> "init", arg |-> "", ret |-> None, msg |-> "", printed |-> FALSE]
    /\ jogaveis = <<>>
    /\ old_hand = <<>>
    /\ produced = None

\* one pass of the menu loop: the fields and the console after it
Finish(op, arg, ret, msg, hand, top, next_status, out) ==
    /\ player_hand' = hand
    /\ top_card' = top
    /\ current_color' = current_color
    /\ status' = next_status
    /\ last' = [op |-> op, arg |-> arg, ret |-> ret, msg |-> msg, printed |-> out.printed]
    /\ jogaveis' = out.jogaveis
    /\ old_hand' = player_hand
    /\ produced' = IF op \in {"capture", "define", "change"} /\ Truthy(ret)
                   THEN ret ELSE produced

\* "if card:" of options 1, 2 and 5: set the top card and suggest
TopCardStep(op, arg, card, hand) ==
    IF Truthy(card)
    THEN Finish(op, arg, card, "top_set", hand, SetTop(top_card, card), "menu",
                melhores_jogadas(hand, SetTop(top_card, card)))
    ELSE Finish(op, arg, card, IF op = "capture" THEN "" ELSE "invalid", hand,
                SetTop(top_card, card), "menu", NoOutput)

\* an exception nothing catches ends the process
Crash(op, arg, raised) ==
    Finish(op, arg, None, raised, player_hand, top_card, "crashed", NoOutput)

\* options 2 and 5 after the prompt
SetTopFromText(op, typed) ==
    IF strip(typed) = ""
    THEN Finish(op, typed, None, "empty_input", player_hand, top_card, "menu", NoOutput)
    ELSE \E r \in {parse_manual_input(player_hand, strip(typed), FALSE)} :
            IF r.ret.raised # "" THEN Crash(op, typed, r.ret.raised)
            ELSE TopCardStep(op, typed, r.ret.value, r.hand)

\* option 1
CaptureCard ==
    /\ status = "menu"
    /\ \E c \in Captures :
         \E r \in {capture_card(c.how, c.frame.color_scores, c.frame.ocr)} :
            IF r.raised # "" THEN Crash("capture", c.how, r.raised)
            ELSE TopCardStep("capture", c.how, r.value, player_hand)

\* option 2
DefineTop ==
    /\ status = "menu"
    /\ \E typed \in GameTexts : SetTopFromText("define", typed)

\* option 3
ViewHand ==
    /\ status = "menu"
    /\ Finish("view", "", None, "shown", player_hand, top_card, "menu", NoOutput)

\* option 4
AddCard ==
    /\ status = "menu"
    /\ \E typed \in GameTexts :
         IF strip(typed) = ""
         THEN Finish("add", typed, None, "empty_input", player_hand, top_card,
                     "menu", NoOutput)
         ELSE \E r \in {parse_manual_input(player_hand, strip(typed), TRUE)} :
                 /\ Len(r.hand) <= MaxHand
                 /\ IF r.ret.raised # "" THEN Crash("add", typed, r.ret.raised)
                    ELSE Finish("add", typed, r.ret.value,
                                IF Truthy(r.ret.value) THEN "added" ELSE "invalid",
                                r.hand, top_card, "menu", NoOutput)

\* option 5
ChangeTop ==
    /\ status = "menu"
    /\ \E typed \in GameTexts : SetTopFromText("change", typed)

\* option 6
RemoveCard ==
    /\ status = "menu"
    /\ \E typed \in RemoveTexts :
         \E r \in {remove_card_from_hand(player_hand, typed)} :
            Finish("remove", typed, r.removed, r.msg, r.hand, top_card, "menu", NoOutput)

\* option 7
Quit ==
    /\ status = "menu"
    /\ Finish("quit", "", None, "bye", player_hand, top_card, "exited", NoOutput)

\* any other line at the menu prompt
InvalidOption ==
    /\ status = "menu"
    /\ \E typed \in OtherChoices :
         Finish("other", typed, None, "invalid_option", player_hand, top_card,
                "menu", NoOutput)

Next ==
    \/ CaptureCard
    \/ DefineTop
    \/ ViewHand
    \/ AddCard
    \/ ChangeTop
    \/ RemoveCard
    \/ Quit
    \/ InvalidOption

Spec == Init /\ [][Next]_vars

-----------------------------------------------------------------------------
(* One call of melhores_jogadas, on any hand and top card of a small deck *)

EvalCards ==
    {NumberCard(c, v) : c \in {"red", "blue"}, v \in {0, 5}}
    \cup {ActionCard(c, a) : c \in {"red", "blue"}, a \in {"skip", "reverse"}}
    \cup {WildCard("wild"), WildCard("wild_draw_four")}

EvalHands == UNION {[1..n -> EvalCards] : n \in 0..MaxLen}

InitEval ==
    /\ player_hand \in EvalHands
    /\ top_card \in EvalCards \cup {None}
    /\ current_color = None
    /\ status = "call"
    /\ last = [op |-> "init", arg |-> "", ret |-> None, msg |-> "", printed |-> FALSE]
    /\ jogaveis = <<>>
    /\ old_hand = player_hand
    /\ produced = top_card

CallMelhoresJogadas ==
    /\ status = "call"
    /\ \E r \in {melhores_jogadas(player_hand, top_card)} :
         /\ jogaveis' = r.jogaveis
         /\ last' = [op |-> "melhores_jogadas", arg |-> "", ret |-> None,
                     msg |-> IF r.printed THEN "suggested" ELSE "no_top_card",
                     printed |-> r.printed]
    /\ status' = "returned"
    /\ old_hand' = player_hand
    /\ UNCHANGED <<player_hand, top_card, current_color, produced>>

NextEval == CallMelhoresJogadas

SpecEval == InitEval /\ [][NextEval]_vars

-----------------------------------------------------------------------------
(* One call of parse_manual_input, on any text of a few words *)

ParseWords ==
    {"red", "Blue", "purple", "5", "05", "10", "skip", "Draw_Two", "wild",
     "WILD_DRAW_FOUR", "²"}

\* the words joined by single blanks, each word after a blank
RECURSIVE TextsOf(_)
TextsOf(n) ==
    IF n = 0 THEN {""}
    ELSE TextsOf(n - 1) \cup {t \o " " \o w : t \in TextsOf(n - 1), w \in ParseWords}

ParseTexts == {strip(t) : t \in TextsOf(MaxTokens)} \cup {" red\t5 ", "RED 9", "yellow reverse", "green 0"}

ParseHands == {<<>>, <<WildCard("wild"), NumberCard("red", 5)>>}

InitParse ==
    /\ player_hand \in ParseHands
    /\ top_card = None
    /\ current_color = None
    /\ status = "call"
    /\ last \in {[op |-> "init", arg |-> [text |-> t, adicionar_na_mao |-> f],
                  ret |-> None, msg |-> "", printed |-> FALSE] :
                    t \in ParseTexts, f \in BOOLEAN}
    /\ jogaveis = <<>>
    /\ old_hand = player_hand
    /\ produced = None

CallParseManualInput ==
    /\ status = "call"
    /\ \E r \in {parse_manual_input(player_hand, last.arg.text, last.arg.adicionar_na_mao)} :
         /\ player_hand' = r.hand
         /\ last' = [op |-> "parse_manual_input", arg |-> last.arg,
                     ret |-> r.ret.value, msg |-> r.ret.raised, printed |-> FALSE]
         /\ status' = IF r.ret.raised # "" THEN "raised" ELSE "returned"
    /\ old_hand' = player_hand
    /\ UNCHANGED <<top_card, current_color, jogaveis, produced>>

NextParse == CallParseManualInput

SpecParse == InitParse /\ [][NextParse]_vars

-----------------------------------------------------------------------------
(* One call of detect_card, on any answer of the two primitives *)

\* pixel counts around the threshold
PixelCounts == {0, MinPixels - 1, MinPixels, MinPixels + 1}

AllScores ==
    {Scores(r, b, g, y, k) : r \in PixelCounts, b \in PixelCounts, g \in PixelCounts,
                             y \in PixelCounts, k \in PixelCounts}

\* texts of the OCR whitelist 0123456789SRW+24
OcrTexts ==
    {DigitText(n) : n \in 0..9}
    \cup {"S", "R", "+2", "W", "+4", "", " 7\n", "12", "W+4", "+24", "+"}

InitDetect ==
    /\ player_hand = <<>>
    /\ top_card = None
    /\ current_color = None
    /\ status = "call"
    /\ last \in {[op |-> "init", arg |-> [color_scores |-> c, ocr |-> t],
                  ret |-> None, msg |-> "", printed |-> FALSE] :
                    c \in AllScores, t \in OcrTexts}
    /\ jogaveis = <<>>
    /\ old_hand = <<>>
    /\ produced = None

\* the call, with the locals color and value of detect_card
CallDetectCard ==
    /\ status = "call"
    /\ \E r \in {detect_card(last.arg.color_scores, last.arg.ocr)} :
         last' = [op |-> "detect_card",
                  arg |-> [color_scores |-> last.arg.color_scores, ocr |-> last.arg.ocr,
                           color |-> detect_color(last.arg.color_scores),
                           value |-> detect_card_type(last.arg.ocr).value],
                  ret |-> r.value, msg |-> r.raised, printed |-> FALSE]
    /\ status' = "returned"
    /\ UNCHANGED <<player_hand, top_card, current_color, jogaveis, old_hand, produced>>

NextDetect == CallDetectCard

SpecDetect == InitDetect /\ [][NextDetect]_vars

-----------------------------------------------------------------------------
(* Properties *)

\* The matching rules, as stated for the move evaluator
IsWild(c) == c.type = "wild"
SameColor(c, reference) ==
    "color" \in DOMAIN c /\ "color" \in DOMAIN reference /\ c.color = reference.color
SameRank(c, reference) ==
    \/ c.type = "number" /\ reference.type = "number" /\ c.value = reference.value
    \/ c.type = "action" /\ reference.type = "action" /\ c.action = reference.action
Eligible(c, reference) == IsWild(c) \/ SameColor(c, reference) \/ SameRank(c, reference)

Count(list, c) == Cardinality({i \in DOMAIN list : list[i] = c})
CategoryRank(c) == CASE c.type = "number" -> 1 [] c.type = "action" -> 2 [] c.type = "wild" -> 3
OfCategory(list, t) == LET Test(c) == c.type = t IN SelectSeq(list, Test)
EligibleOf(hand, reference) == LET Test(c) == Eligible(c, reference) IN SelectSeq(hand, Test)
Suggested == last.op = "melhores_jogadas" /\ top_card # None

Red5 == NumberCard("red", 5)
Red0 == NumberCard("red", 0)
Blue5 == NumberCard("blue", 5)
RedSkip == ActionCard("red", "skip")
BlueSkip == ActionCard("blue", "skip")
Wild == WildCard("wild")

\* C1: against a present reference card, the cards suggested are exactly the
\* hand cards that are wild, share the reference's colour, or are of the
\* reference's variant with its value or action: each such card as often as the
\* hand holds it, every other card never.
C1_SuggestsExactlyEligible ==
    Suggested =>
        /\ last.printed
        /\ \A c \in EvalCards :
              Count(jogaveis, c) = IF Eligible(c, top_card) THEN Count(player_hand, c) ELSE 0

\* a red 5 is suggested against a blue 5, a red skip is not
C1_Witness ==
    /\ Suggested
    /\ top_card = Blue5
    /\ player_hand = <<RedSkip, Red5, Wild>>
    /\ jogaveis = <<Red5, Wild>>

\* C2: the suggestions run numbers, then actions, then wilds, and within each of
\* the three the playable cards stand in the order the hand has them.
C2_CategoryOrderStable ==
    Suggested =>
        /\ \A i, j \in DOMAIN jogaveis :
              i < j => CategoryRank(jogaveis[i]) <= CategoryRank(jogaveis[j])
        /\ \A t \in {"number", "action", "wild"} :
              OfCategory(jogaveis, t) = OfCategory(EligibleOf(player_hand, top_card), t)

\* a hand in the opposite order, with two numbers
C2_Witness ==
    /\ Suggested
    /\ top_card = Red0
    /\ player_hand = <<Wild, RedSkip, Red5, Red0>>
    /\ jogaveis = <<Red5, Red0, RedSkip, Wild>>

ExampleHand == <<Wild, Red5, BlueSkip, Red5>>
ExampleCall == Suggested /\ player_hand = ExampleHand /\ top_card = Red5

\* C3, as stated: hand [Wild, Red-5, Blue-Skip, Red-5] against Red-5 gives
\* [Red-5, Red-5, Blue-Skip, Wild].
C3_ExampleAsStated == ExampleCall => jogaveis = <<Red5, Red5, BlueSkip, Wild>>

\* C3, amended: hand [Wild, Red-5, Blue-Skip, Red-5] against Red-5 gives
\* [Red-5, Red-5, Wild]; the Blue-Skip matches no rule and is left out.
C3_ExampleWithoutBlueSkip == ExampleCall => jogaveis = <<Red5, Red5, Wild>>

C3_Witness == ExampleCall /\ status = "returned"

\* The grammar of the manual parser, on the lower-cased words of the text
IsDigit0to9(word) == AllDecimal(word) /\ DecimalValue(word) \in 0..9
Grammar(text) ==
    LET words == split(lower(text))
    IN  IF /\ Len(words) = 2
           /\ words[1] \in {"red", "blue", "green", "yellow"}
           /\ IsDigit0to9(words[2])
        THEN NumberCard(words[1], DecimalValue(words[2]))
        ELSE IF /\ Len(words) = 2
                /\ words[1] \in {"red", "blue", "green", "yellow"}
                /\ words[2] \in {"skip", "reverse", "draw_two"}
        THEN ActionCard(words[1], words[2])
        ELSE IF Len(words) = 1 /\ words[1] \in {"wild", "wild_draw_four"}
        THEN WildCard(words[1])
        ELSE None
Parsed == last.op = "parse_manual_input"

\* C4: the parser returns the card of the grammar for a text of the grammar,
\* and invalid (None) for every other text.
C4_ReturnsGrammarOrInvalid ==
    Parsed => status = "returned" /\ last.ret = Grammar(last.arg.text)

\* C4, for the calls that return: what they return is what the grammar says
C4_ReturnedValueIsGrammar ==
    Parsed /\ status = "returned" => last.ret = Grammar(last.arg.text)

\* C4: the text the parser neither accepts nor calls invalid
C4_RaisesOnSuperscript ==
    Parsed /\ last.arg.text = "red ²" => status = "raised" /\ last.msg = "ValueError"

\* C5: an add whose text parses puts the card last, lengthens the hand by one
\* and keeps the earlier cards where they were; an add whose text does not
\* parse leaves the hand as it was.
C5_AddAppends ==
    last.op = "add" =>
        IF Truthy(last.ret)
        THEN /\ Len(player_hand) = Len(old_hand) + 1
             /\ player_hand[Len(player_hand)] = last.ret
             /\ \A i \in DOMAIN old_hand : player_hand[i] = old_hand[i]
        ELSE player_hand = old_hand

\* a second copy of a card is added behind another card
C5_Witness ==
    /\ last.op = "add"
    /\ last.ret = Red5
    /\ old_hand = <<Red5, Wild>>
    /\ player_hand = <<Red5, Wild, Red5>>

\* the index typed at the removal prompt
Removing == last.op = "remove" /\ int(last.arg).raised = ""
TypedIndex == int(last.arg).value
Without(list, i) == [k \in 1..(Len(list) - 1) |-> IF k < i THEN list[k] ELSE list[k + 1]]
RemovedAtIndex ==
    /\ last.msg = "removed"
    /\ last.ret = old_hand[TypedIndex]
    /\ player_hand = Without(old_hand, TypedIndex)

\* C6, as stated: an index in 1..n removes and returns the card at it, any
\* other index fails as out of range and leaves the hand alone.
C6_RemoveAsStated ==
    Removing =>
        IF TypedIndex \in 1..Len(old_hand) THEN RemovedAtIndex
        ELSE last.msg = "invalid_number" /\ player_hand = old_hand

\* C6, amended: an index in 1..n removes and returns the card at it; any other
\* index leaves the hand alone and returns no card, and is reported as out of
\* range only when it is not 0 and the hand is not empty: 0 is reported as a
\* cancellation, and an empty hand is reported as empty.
C6_RemoveOrLeave ==
    Removing =>
        IF TypedIndex \in 1..Len(old_hand) THEN RemovedAtIndex
        ELSE /\ player_hand = old_hand
             /\ last.ret = None
             /\ last.msg = IF old_hand = <<>> THEN "hand_empty"
                           ELSE IF TypedIndex = 0 THEN "cancelled"
                           ELSE "invalid_number"

\* the middle card of three is removed
C6_Witness ==
    /\ Removing
    /\ TypedIndex = 2
    /\ old_hand = <<Wild, Red5, BlueSkip>>
    /\ player_hand = <<Wild, BlueSkip>>
    /\ last.ret = Red5

\* The reconciliation of the two labels, as stated for the recognizer
Chromatic == {"red", "blue", "green", "yellow"}
Recognized(color, symbol) ==
    IF color \in Chromatic
    THEN IF IsInt(symbol) THEN NumberCard(color, symbol.int)
         ELSE IF symbol \in {StrVal("skip"), StrVal("reverse"), StrVal("draw_two")}
         THEN ActionCard(color, symbol.str)
         ELSE None
    ELSE IF color = "black"
    THEN IF symbol \in {StrVal("wild"), StrVal("wild_draw_four")}
         THEN WildCard(symbol.str)
         ELSE WildCard("wild")
    ELSE None
Detected == last.op = "detect_card"

\* C7: the recognizer's answer is the reconciliation of the colour label and the
\* symbol label; a wild card it gives has no colour and a number card it gives
\* has a value in 0..9.
C7_RecognizerReconciles ==
    Detected =>
        /\ last.ret = Recognized(last.arg.color, last.arg.value)
        /\ last.ret.type = "wild" => "color" \notin DOMAIN last.ret
        /\ last.ret.type = "number" => last.ret.value \in 0..9

\* a black card with no symbol read is given as a wild
C7_Witness ==
    /\ Detected
    /\ last.arg.color = "black"
    /\ last.arg.value = None
    /\ last.ret = Wild

MaxScore == CHOOSE m \in {last.arg.color_scores[k] : k \in DOMAIN last.arg.color_scores} :
                \A k \in DOMAIN last.arg.color_scores : last.arg.color_scores[k] <= m

\* C8, as stated: the label is indeterminate exactly when the largest score is
\* below 1000, and otherwise is a label whose score is the largest.
C8_BelowThresholdAsStated ==
    Detected =>
        /\ last.arg.color = "unknown" <=> MaxScore < 1000
        /\ MaxScore >= 1000 =>
              /\ last.arg.color \in DOMAIN last.arg.color_scores
              /\ last.arg.color_scores[last.arg.color] = MaxScore

\* C8, amended: the label is indeterminate exactly when the largest score is
\* at most 1000, and otherwise (a largest score above 1000) is a label whose
\* score is the largest.
C8_AtMostThreshold ==
    Detected =>
        /\ last.arg.color = "unknown" <=> MaxScore <= 1000
        /\ MaxScore > 1000 =>
              /\ last.arg.color \in DOMAIN last.arg.color_scores
              /\ last.arg.color_scores[last.arg.color] = MaxScore

\* a largest score of exactly 1000 is indeterminate
C8_Witness == Detected /\ MaxScore = 1000 /\ last.arg.color = "unknown"

\* C9: the hand starts empty, and differs from what it was before an operation
\* only after an add whose text parsed or a removal at an index of the hand.
C9_HandChangesOnlyByAddRemove ==
    /\ last.op = "init" => player_hand = <<>>
    /\ player_hand # old_hand =>
          \/ last.op = "add" /\ Truthy(last.ret)
          \/ Removing /\ TypedIndex \in 1..Len(old_hand)
    /\ last.op \in {"capture", "define", "change", "view"} => player_hand = old_hand

\* the top card is defined and the suggestions are sorted into another order
\* than the hand's, which stays
C9_Witness ==
    /\ last.op = "define"
    /\ last.printed
    /\ player_hand = <<Wild, BlueSkip, Red5>>
    /\ jogaveis = <<Red5, Wild>>
    /\ old_hand = player_hand

\* C10: the top card is the card of the last detect or define that gave one
\* (produced), and absent while none has; produced is replaced only by such a
\* card, so a failed detect or define, an add and a remove leave the slot alone
\* and it never goes back to absent.
C10_TopIsLastProduced == top_card = produced

\* a define that fails after the top card was set
C10_Witness ==
    /\ last.op \in {"define", "change"}
    /\ last.msg = "invalid"
    /\ top_card = Red5
    /\ produced = Red5

====
